---- MODULE Spec2Model ----
(***************************************************************************)
(* Browser-local authentication and session module of the Tile Inventory   *)
(* app (js/auth.js, login version).  Durable storage (localStorage) holds  *)
(* the user directory and the remember pointer, volatile storage           *)
(* (sessionStorage) holds the session record of one browsing context.      *)
(* Every async function suspends once, at the Web Crypto digest; a call is *)
(* therefore one "Call" step (the code before the await) and one "Resume"  *)
(* step (the code after it), and resumes of overlapping calls may happen   *)
(* in any order.                                                           *)
(***************************************************************************)
EXTENDS Integers, Sequences, FiniteSets, Bags, TLC

VARIABLES
    usersItem,      \* localStorage['tia_users']
    rememberItem,   \* localStorage['tia_remember']
    sessionItem,    \* sessionStorage['tia_session'], one per browsing context
    tasks,          \* per context: bag of calls suspended on hashPassword
    now,            \* reading of Date.now()
    budget,         \* number of calls that may still reach their await
    ret             \* the step just taken and what it returned to its caller

vars == <<usersItem, rememberItem, sessionItem, tasks, now, budget, ret>>

(* ------------------------------ bounds --------------------------------- *)
MaxClock == 1       \* Date.now() ranges over 0..MaxClock
MaxPending == 2     \* calls of one context suspended on the digest at once
MaxCalls == 2       \* calls that reach their await in one run
MaxStoredCalls == 1 \* the same, in a run that starts from stored data

(* ------------------------------ values --------------------------------- *)
\* Strings that the code lower-cases are tuples of one-character strings.
defaultUser == <<"a","d","m","i","n","@","e","x","a","m","p","l","e",".","c","o","m">>
defaultPass == "admin123"

Contexts == {1, 2}
Usernames == {defaultUser, <<"b">>, <<"B">>}
Passwords == {defaultPass, "pw"}

\* Arguments of the createUser calls the pages make
CreateInputs ==
    {[username |-> << >>,       password |-> "pw",        role |-> "admin"],
     [username |-> <<"b">>,     password |-> "",          role |-> "admin"],
     [username |-> <<"b">>,     password |-> "pw",        role |-> "viewer"],
     [username |-> <<"B">>,     password |-> defaultPass, role |-> "admin"],
     [username |-> defaultUser, password |-> "pw",        role |-> "viewer"]}

\* An optional value (null in the code) is the empty tuple, a present one a
\* one-element tuple.
Absent == << >>
Some(x) == <<x>>
IsPresent(o) == Len(o) > 0

UpperToLower ==
    [A |-> "a", B |-> "b", C |-> "c", D |-> "d", E |-> "e", F |-> "f",
     G |-> "g", H |-> "h", I |-> "i", J |-> "j", K |-> "k", L |-> "l",
     M |-> "m", N |-> "n", O |-> "o", P |-> "p", Q |-> "q", R |-> "r",
     S |-> "s", T |-> "t", U |-> "u", V |-> "v", W |-> "w", X |-> "x",
     Y |-> "y", Z |-> "z"]

\* String.prototype.toLowerCase on the letters used here
toLowerCase(s) ==
    [i \in 1..Len(s) |-> IF s[i] \in DOMAIN UpperToLower THEN UpperToLower[s[i]] ELSE s[i]]

\* hashPassword: hex of the SHA-256 digest of the UTF-8 bytes
hashPassword(password) ==
    CASE password = "admin123" -> "240be518fabd2724ddb6f04eeb1da5967448d7e831c08c8fa822809f74c720a9"
      [] password = "pw"       -> "30c952fab122c3f9759f02a6d95c3758b246b4fee239957b2d4fee46e26170c4"
      [] password = ""         -> "e3b0c44298fc1c149afbf4c8996fb92427ae41e4649b934ca495991b7852b855"

(* --------------------------- user directory ---------------------------- *)
\* The stored item: absent, unparseable text, or the JSON of a user array.
NoItem == [present |-> FALSE, parses |-> TRUE, value |-> << >>]

loadUsersUnguarded(item) == item.value

loadUsers(item) ==
    IF ~item.present THEN << >>
    ELSE IF ~item.parses THEN << >>
    ELSE item.value

saveUsers(users) == [present |-> TRUE, parses |-> TRUE, value |-> users]

UsernameMatches(u, username) == toLowerCase(u.username) = toLowerCase(username)

findUserExactCase(item, username) ==
    LET users == loadUsers(item)
        hits == {i \in 1..Len(users) : users[i].username = username}
    IN  IF hits = {} THEN Absent
        ELSE Some(users[CHOOSE i \in hits : \A j \in hits : i <= j])

\* Array.prototype.find: the first match, or null
findUserByUsername(item, username) ==
    LET users == loadUsers(item)
        hits == {i \in 1..Len(users) : UsernameMatches(users[i], username)}
    IN  IF hits = {} THEN Absent
        ELSE Some(users[CHOOSE i \in hits : \A j \in hits : i <= j])

UserExistsNever(users, username) == FALSE

UserExistsExactCase(users, username) ==
    \E i \in 1..Len(users) : users[i].username = username

\* users.some(...) of createUser
UserExists(users, username) ==
    \E i \in 1..Len(users) : UsernameMatches(users[i], username)

NewUser(username, hash, role, time) ==
    [id |-> time, username |-> username, passwordHash |-> hash, role |-> role]

(* ------------------------------ session -------------------------------- *)
NewSession(user, time) ==
    [id |-> user.id, username |-> user.username, role |-> user.role, createdAt |-> time]

RememberAlways(user, remember) == Some(user.username)

RememberLower(user, remember) ==
    IF remember THEN Some(toLowerCase(user.username)) ELSE Absent

RememberRole(user, remember) ==
    IF remember THEN Some(<<user.role>>) ELSE Absent

\* setSession: the remember pointer it leaves
RememberAfterSet(user, remember) ==
    IF remember THEN Some(user.username) ELSE Absent

\* `if (remembered)`: null and the empty string are both falsy
Truthy(o) == IsPresent(o) /\ o[1] # << >>

(* ------------------------------ results -------------------------------- *)
NoRet ==
    [op |-> "init", ctx |-> 0, status |-> "returned", username |-> << >>,
     password |-> "", role |-> "", flag |-> FALSE, message |-> "",
     success |-> FALSE, user |-> Absent, session |-> Absent, rehydrated |-> FALSE]

NoTask ==
    [kind |-> "none", caller |-> "facade", username |-> << >>, password |-> "",
     role |-> "", remember |-> FALSE, user |-> Absent, users |-> << >>]

Pending(c) == BagCardinality(tasks[c])
Suspend(c, t) ==
    /\ Pending(c) < MaxPending
    /\ budget > 0
    /\ tasks' = [tasks EXCEPT ![c] = @ (+) SetToBag({t})]
    /\ budget' = budget - 1
Finish(c, t) ==
    /\ tasks' = [tasks EXCEPT ![c] = @ (-) SetToBag({t})]
    /\ UNCHANGED budget
NoCall == UNCHANGED <<tasks, budget>>

(* ------------------------------- Init ---------------------------------- *)
Init ==
    /\ usersItem = NoItem
    /\ rememberItem = Absent
    /\ sessionItem = [c \in Contexts |-> Absent]
    /\ tasks = [c \in Contexts |-> EmptyBag]
    /\ now = 0
    /\ budget = MaxCalls
    /\ ret = NoRet

\* Date.now() advances
Tick ==
    /\ now < MaxClock
    /\ now' = now + 1
    /\ ret' = [NoRet EXCEPT !.op = "tick"]
    /\ UNCHANGED <<usersItem, rememberItem, sessionItem, tasks, budget>>

(* ------------------------- session store (4.5) ------------------------- *)
getSessionNoRehydrate(sess, rem, item, time) ==
    [session |-> sess, remember |-> rem, value |-> sess, rehydrated |-> FALSE]

getSessionTrusting(sess, rem, item, time) ==
    IF ~IsPresent(sess) /\ Truthy(rem)
    THEN LET s == [id |-> 0, username |-> rem[1], role |-> "admin", createdAt |-> time]
         IN  [session |-> Some(s), remember |-> rem, value |-> Some(s), rehydrated |-> TRUE]
    ELSE [session |-> sess, remember |-> rem, value |-> sess, rehydrated |-> FALSE]

getSessionClearing(sess, rem, item, time) ==
    IF ~IsPresent(sess) /\ Truthy(rem)
    THEN LET user == findUserByUsername(item, rem[1])
         IN  IF IsPresent(user)
             THEN [session  |-> Some(NewSession(user[1], time)),
                   remember |-> Some(user[1].username),
                   value    |-> Some(NewSession(user[1], time)),
                   rehydrated |-> TRUE]
             ELSE [session |-> sess, remember |-> Absent, value |-> Absent,
                   rehydrated |-> FALSE]
    ELSE [session |-> sess, remember |-> rem, value |-> sess, rehydrated |-> FALSE]

\* getSession: the record it returns and the storage it leaves behind
getSession(sess, rem, item, time) ==
    IF ~IsPresent(sess)
    THEN LET user == IF Truthy(rem) THEN findUserByUsername(item, rem[1]) ELSE Absent
         IN  IF Truthy(rem) /\ IsPresent(user)
             THEN [session  |-> Some(NewSession(user[1], time)),
                   remember |-> RememberAfterSet(user[1], TRUE),
                   value    |-> Some(NewSession(user[1], time)),
                   rehydrated |-> TRUE]
             ELSE [session |-> sess, remember |-> rem, value |-> Absent,
                   rehydrated |-> FALSE]
    ELSE [session |-> sess, remember |-> rem, value |-> sess, rehydrated |-> FALSE]

\* clearSession: only the volatile record goes
clearSession(sess) == Absent

RememberKept(rem, forget) == rem

RememberForgotten(rem, forget) == Absent

\* logout(forget): the remember pointer it leaves
RememberAfterLogout(rem, forget) == IF forget THEN Absent ELSE rem

GetSession(c) ==
    LET g == getSession(sessionItem[c], rememberItem, usersItem, now)
    IN  /\ sessionItem' = [sessionItem EXCEPT ![c] = g.session]
        /\ rememberItem' = g.remember
        /\ ret' = [NoRet EXCEPT !.op = "getSession", !.ctx = c, !.session = g.value,
                                !.rehydrated = g.rehydrated]
        /\ UNCHANGED <<usersItem, tasks, budget, now>>

IsAuthenticated(c) ==
    LET g == getSession(sessionItem[c], rememberItem, usersItem, now)
    IN  /\ sessionItem' = [sessionItem EXCEPT ![c] = g.session]
        /\ rememberItem' = g.remember
        /\ ret' = [NoRet EXCEPT !.op = "isAuthenticated", !.ctx = c,
                                !.success = IsPresent(g.value),
                                !.rehydrated = g.rehydrated]
        /\ UNCHANGED <<usersItem, tasks, budget, now>>

Logout(c, forget) ==
    /\ sessionItem' = [sessionItem EXCEPT ![c] = clearSession(@)]
    /\ rememberItem' = RememberAfterLogout(rememberItem, forget)
    /\ ret' = [NoRet EXCEPT !.op = "logout", !.ctx = c, !.flag = forget]
    /\ UNCHANGED <<usersItem, tasks, budget, now>>

(* --------------------------- createUser (4.2) --------------------------- *)
CreateTask(caller, username, password, role) ==
    [NoTask EXCEPT !.kind = "createUser", !.caller = caller, !.username = username,
                   !.password = password, !.role = role]

\* `!username || !plainPassword`
InvalidInput(username, password) == username = << >> \/ password = ""

\* createUser up to its await
CreateUserCall(c, username, password, role) ==
    /\ IF InvalidInput(username, password)
       THEN /\ ret' = [NoRet EXCEPT !.op = "createUser", !.ctx = c, !.status = "threw",
                                    !.username = username, !.password = password,
                                    !.role = role,
                                    !.message = "username and password required"]
            /\ NoCall
       ELSE /\ Suspend(c, CreateTask("facade", username, password, role))
            /\ ret' = [NoRet EXCEPT !.op = "createUser", !.ctx = c, !.status = "pending"]
    /\ UNCHANGED <<usersItem, rememberItem, sessionItem, now>>

\* What the rest of the DOMContentLoaded handler does once ensureDefaultAdmin
\* has settled: attachLoginHandler() changes no storage, isAuthenticated() may
\* rehydrate.
AfterEnsure(c, item) ==
    LET g == getSession(sessionItem[c], rememberItem, item, now)
    IN  /\ sessionItem' = [sessionItem EXCEPT ![c] = g.session]
        /\ rememberItem' = g.remember
        /\ ret' = [NoRet EXCEPT !.op = "DOMContentLoaded", !.ctx = c,
                                !.success = IsPresent(g.value),
                                !.rehydrated = g.rehydrated]

EnsureRethrows(status) == status

\* `try { await createUser(...) } catch (e) { console.error(...) }`: however
\* createUser ended, ensureDefaultAdmin ends normally
EnsureCatch(status) == "returned"

\* createUser after its await, and the return into its caller. `stored` is
\* whether localStorage.setItem accepts the write; when it throws, the record
\* was pushed on the loaded copy only and the error leaves createUser.
CreateUserSettle(c, t, stored) ==
    /\ t \in BagToSet(tasks[c])
    /\ t.kind = "createUser"
    /\ Finish(c, t)
    /\ LET hash    == hashPassword(t.password)
           users   == loadUsers(usersItem)
           exists  == UserExists(users, t.username)
           user    == NewUser(t.username, hash, t.role, now)
           failed  == exists \/ ~stored
           message == IF exists THEN "User already exists"
                      ELSE IF ~stored THEN "QuotaExceededError" ELSE ""
           item    == IF failed THEN usersItem ELSE saveUsers(Append(users, user))
       IN  /\ usersItem' = item
           /\ CASE t.caller = "facade" ->
                   /\ ret' = IF failed
                             THEN [NoRet EXCEPT !.op = "createUser", !.ctx = c,
                                      !.status = "threw", !.username = t.username,
                                      !.password = t.password, !.role = t.role,
                                      !.message = message]
                             ELSE [NoRet EXCEPT !.op = "createUser", !.ctx = c,
                                      !.username = t.username, !.password = t.password,
                                      !.role = t.role, !.success = TRUE,
                                      !.user = Some(user)]
                   /\ UNCHANGED <<rememberItem, sessionItem>>
                [] t.caller = "ensure" ->
                   /\ ret' = [NoRet EXCEPT !.op = "ensureDefaultAdmin", !.ctx = c,
                                 !.status = EnsureCatch(IF failed THEN "threw" ELSE "returned"),
                                 !.success = ~failed,
                                 !.message = message]
                   /\ UNCHANGED <<rememberItem, sessionItem>>
                [] t.caller = "init" -> AfterEnsure(c, item)
    /\ UNCHANGED now

\* the write is accepted
CreateUserResume(c, t) == CreateUserSettle(c, t, TRUE)

\* the write is refused (storage full or disabled); reached only when the
\* duplicate check has passed
CreateUserResumeFull(c, t) ==
    /\ t \in BagToSet(tasks[c])
    /\ ~UserExists(loadUsers(usersItem), t.username)
    /\ CreateUserSettle(c, t, FALSE)

(* ------------------------ ensureDefaultAdmin (4.3) ---------------------- *)
EnsureStart(c, caller) ==
    Suspend(c, CreateTask(caller, defaultUser, defaultPass, "admin"))

NoUsersEver(item) == TRUE

\* `users.length === 0`, read before the await
NoUsers(item) == Len(loadUsers(item)) = 0

EnsureDefaultAdmin(c) ==
    /\ IF NoUsers(usersItem)
       THEN /\ EnsureStart(c, "ensure")
            /\ ret' = [NoRet EXCEPT !.op = "ensureDefaultAdmin", !.ctx = c,
                                    !.status = "pending"]
       ELSE /\ ret' = [NoRet EXCEPT !.op = "ensureDefaultAdmin", !.ctx = c]
            /\ NoCall
    /\ UNCHANGED <<usersItem, rememberItem, sessionItem, now>>

\* The page's DOMContentLoaded handler
DOMContentLoaded(c) ==
    /\ IF NoUsers(usersItem)
       THEN /\ EnsureStart(c, "init")
            /\ ret' = [NoRet EXCEPT !.op = "DOMContentLoaded", !.ctx = c,
                                    !.status = "pending"]
            /\ UNCHANGED <<rememberItem, sessionItem>>
       ELSE /\ AfterEnsure(c, usersItem)
            /\ NoCall
    /\ UNCHANGED <<usersItem, now>>

(* ----------------------- authenticate / login (4.4) --------------------- *)
LoginTask(username, password, remember, user) ==
    [NoTask EXCEPT !.kind = "login", !.username = username, !.password = password,
                   !.remember = remember, !.user = user]

HashMatchesAnything(password, user) == TRUE

\* `hash !== user.passwordHash` negated
HashMatches(password, user) == hashPassword(password) = user.passwordHash

\* tiaAuth.login up to the await inside authenticate
Login(c, username, password, remember) ==
    /\ LET user == findUserByUsername(usersItem, username)
       IN  IF ~IsPresent(user)
           THEN /\ ret' = [NoRet EXCEPT !.op = "login", !.ctx = c, !.username = username,
                                        !.password = password, !.flag = remember,
                                        !.message = "User not found"]
                /\ NoCall
           ELSE /\ Suspend(c, LoginTask(username, password, remember, user))
                /\ ret' = [NoRet EXCEPT !.op = "login", !.ctx = c, !.status = "pending"]
    /\ UNCHANGED <<usersItem, rememberItem, sessionItem, now>>

loginSessionNever(sess, success, user, time) == sess

loginSessionUnchecked(sess, success, user, time) == Some(NewSession(user, time))

\* `if (r.success) setSession(r.user, remember)`: the volatile record it leaves
loginSession(sess, success, user, time) ==
    IF success THEN Some(NewSession(user, time)) ELSE sess

\* the same, for the remember pointer
loginRemember(rem, success, user, remember) ==
    IF success THEN RememberAfterSet(user, remember) ELSE rem

\* authenticate after its await, then the rest of login
LoginResume(c, t) ==
    /\ t \in BagToSet(tasks[c])
    /\ t.kind = "login"
    /\ Finish(c, t)
    /\ LET user    == t.user[1]
           success == HashMatches(t.password, user)
       IN  /\ sessionItem' = [sessionItem EXCEPT ![c] = loginSession(@, success, user, now)]
           /\ rememberItem' = loginRemember(rememberItem, success, user, t.remember)
           /\ ret' = IF success
                     THEN [NoRet EXCEPT !.op = "login", !.ctx = c, !.username = t.username,
                              !.password = t.password, !.flag = t.remember,
                              !.success = TRUE, !.user = t.user]
                     ELSE [NoRet EXCEPT !.op = "login", !.ctx = c, !.username = t.username,
                              !.password = t.password, !.flag = t.remember,
                              !.message = "Invalid credentials"]
    /\ UNCHANGED <<usersItem, now>>

(* --------------------------- specifications ---------------------------- *)
AllTasks(c) == BagToSet(tasks[c])

\* one browsing context
Next ==
    \/ Tick
    \/ \E a \in CreateInputs : CreateUserCall(1, a.username, a.password, a.role)
    \/ \E t \in AllTasks(1) : CreateUserResume(1, t)
    \/ EnsureDefaultAdmin(1)
    \/ DOMContentLoaded(1)
    \/ \E u \in Usernames, p \in Passwords, b \in BOOLEAN : Login(1, u, p, b)
    \/ \E t \in AllTasks(1) : LoginResume(1, t)
    \/ \E b \in BOOLEAN : Logout(1, b)
    \/ GetSession(1)
    \/ IsAuthenticated(1)

Spec == Init /\ [][Next]_vars

\* A page opened on durable storage left behind by earlier visits, by the
\* other scripts of the site (js/app.js stores 'dev-admin' as the remember
\* pointer) or by hand: the same context, other initial storage.
bRecord == NewUser(<<"b">>, hashPassword("pw"), "viewer", 0)
\* text that JSON.parse rejects, such as a directory cut short while written
Malformed == [present |-> TRUE, parses |-> FALSE, value |-> <<bRecord>>]
StoredUsers == {NoItem, Malformed, saveUsers(<<bRecord>>)}
StoredRemember == {Absent, Some(<< >>), Some(<<"B">>), Some(defaultUser)}

InitStored ==
    /\ usersItem \in StoredUsers
    /\ rememberItem \in StoredRemember
    /\ sessionItem = [c \in Contexts |-> Absent]
    /\ tasks = [c \in Contexts |-> EmptyBag]
    /\ now = 0
    /\ budget = MaxStoredCalls
    /\ ret = NoRet

SpecStored == InitStored /\ [][Next]_vars

(* ------------------------------ properties ----------------------------- *)
Directory == loadUsers(usersItem)

\* the positions of the directory records that name `username`, letter case apart
Named(username) ==
    {i \in 1..Len(Directory) : toLowerCase(Directory[i].username) = toLowerCase(username)}

\* C1: the persisted directory never holds two records whose usernames are
\* equal when letter case is ignored.
C1_UniqueUsernames ==
    \A i, j \in 1..Len(Directory) :
        i # j => toLowerCase(Directory[i].username) # toLowerCase(Directory[j].username)

\* two ensureDefaultAdmin calls overlapped on their hash: both found the
\* directory empty, the first to resume stored the default admin and the
\* other was refused as a duplicate
C1_Witness ==
    /\ ret.op = "ensureDefaultAdmin" /\ ret.message = "User already exists"
    /\ Directory = <<NewUser(defaultUser, hashPassword(defaultPass), "admin", Directory[1].id)>>

\* C2: a login that has returned reports "User not found" exactly when no
\* record carries the username (letter case apart), "Invalid credentials"
\* exactly when one does and the hash of the plaintext differs from its
\* stored hash, and success with that whole record exactly when the hashes
\* are equal.
C2_AuthenticateOutcome ==
    (ret.op = "login" /\ ret.status = "returned") =>
        IF Named(ret.username) = {}
        THEN ~ret.success /\ ret.message = "User not found" /\ ret.user = Absent
        ELSE \E i \in Named(ret.username) :
                IF hashPassword(ret.password) = Directory[i].passwordHash
                THEN ret.success /\ ret.message = "" /\ ret.user = Some(Directory[i])
                ELSE ~ret.success /\ ret.message = "Invalid credentials" /\ ret.user = Absent

\* a login succeeded under a username spelled in another letter case than
\* the record's
C2_Witness ==
    /\ ret.op = "login" /\ ret.status = "returned" /\ ret.success
    /\ ret.user[1].username # ret.username

C2_WitnessInvalid ==
    ret.op = "login" /\ ret.message = "Invalid credentials"

C2_WitnessNotFound ==
    ret.op = "login" /\ ret.message = "User not found" /\ Len(Directory) > 0

\* C3: when the volatile record is gone and the remember pointer holds the
\* username of a directory record (the storage setSession(user, true) leaves
\* once the volatile record alone is removed), getSession returns a session
\* with that record's username and role and stores it as the volatile record.
C3_Rehydration ==
    [][ \A i \in 1..Len(Directory) :
          ( /\ ret'.op = "getSession"
            /\ ~IsPresent(sessionItem[1])
            /\ rememberItem = Some(Directory[i].username) )
          => /\ IsPresent(ret'.session)
             /\ ret'.session[1].username = Directory[i].username
             /\ ret'.session[1].role = Directory[i].role
             /\ sessionItem'[1] = ret'.session ]_vars

\* getSession has just rebuilt the session of a remembered user
C3_Witness ==
    /\ ret.op = "getSession" /\ ret.rehydrated
    /\ IsPresent(ret.session) /\ sessionItem[1] = ret.session
    /\ rememberItem = Some(ret.session[1].username)

\* C4: with no volatile record, getSession returns absent and stores no
\* session unless the remember pointer is present and names (letter case
\* apart) a record of the directory.
C4_Revalidated ==
    [][ ( /\ ret'.op = "getSession"
          /\ ~IsPresent(sessionItem[1])
          /\ (~Truthy(rememberItem) \/ Named(rememberItem[1]) = {}) )
        => /\ ret'.session = Absent
           /\ sessionItem'[1] = Absent ]_vars

\* getSession has answered absent to a pointer that names nobody in a
\* directory that holds users
C4_Witness ==
    /\ ret.op = "getSession" /\ ret.session = Absent
    /\ sessionItem[1] = Absent
    /\ Truthy(rememberItem) /\ Named(rememberItem[1]) = {}
    /\ Len(Directory) > 0

\* C5: logout(true) leaves neither a volatile record nor a remember pointer,
\* and from a state with neither, every step other than a successful login
\* leaves both absent, getSession answering absent and isAuthenticated false.
C5_ForgottenUntilLogin ==
    [][ /\ (ret'.op = "logout" /\ ret'.flag)
            => (sessionItem'[1] = Absent /\ rememberItem' = Absent)
        /\ (sessionItem[1] = Absent /\ rememberItem = Absent)
            => \/ (ret'.op = "login" /\ ret'.success)
               \/ /\ sessionItem'[1] = Absent /\ rememberItem' = Absent
                  /\ ret'.op = "getSession" => ret'.session = Absent
                  /\ ret'.op = "isAuthenticated" => ~ret'.success
                  /\ ret'.op = "DOMContentLoaded" => ~ret'.success ]_vars

\* logout(true) has just run, after a user was created and a login made and
\* with no call left in flight
C5_Witness ==
    /\ ret.op = "logout" /\ ret.flag
    /\ sessionItem[1] = Absent /\ rememberItem = Absent
    /\ Len(Directory) > 0 /\ budget <= MaxCalls - 2 /\ Pending(1) = 0

\* C6: logout(false) removes the volatile record and leaves the remember
\* pointer and the directory as they were; a getSession that directly follows
\* it with a pointer present returns and stores a session for the pointer's
\* user.
C6_LogoutKeepsPointer ==
    [][ /\ (ret'.op = "logout" /\ ~ret'.flag)
            => /\ sessionItem'[1] = Absent
               /\ rememberItem' = rememberItem
               /\ usersItem' = usersItem
        /\ (ret.op = "logout" /\ ~ret.flag /\ IsPresent(rememberItem)
              /\ ret'.op = "getSession")
            => /\ IsPresent(ret'.session)
               /\ ret'.session[1].username = rememberItem[1]
               /\ sessionItem'[1] = ret'.session ]_vars

\* a logout(false) that left a remember pointer behind
C6_Witness ==
    /\ ret.op = "logout" /\ ~ret.flag
    /\ sessionItem[1] = Absent /\ IsPresent(rememberItem)

\* C7: after a successful login the remember pointer is the user's username
\* if remember was asked and absent if it was not; after a rehydration it is
\* the username of the rebuilt session.
C7_PointerAfterSetSession ==
    /\ (ret.op = "login" /\ ret.success)
         => rememberItem = IF ret.flag THEN Some(ret.user[1].username) ELSE Absent
    /\ ret.rehydrated
         => (IsPresent(sessionItem[ret.ctx])
               /\ rememberItem = Some(sessionItem[ret.ctx][1].username))

\* a login without remember has succeeded under another spelling of the
\* username and no pointer is left
C7_Witness ==
    /\ ret.op = "login" /\ ret.success /\ ~ret.flag
    /\ ret.username # ret.user[1].username
    /\ rememberItem = Absent

\* C8: a login never throws; one that fails, and one that is still waiting
\* for its hash, leaves the volatile record, the remember pointer and the
\* directory as they were.
C8_FailedLoginChangesNothing ==
    [][ ret'.op = "login"
        => /\ ret'.status # "threw"
           /\ ~ret'.success
                => /\ UNCHANGED <<sessionItem, rememberItem, usersItem>>
                   /\ ret'.status = "returned"
                        => ret'.message \in {"User not found", "Invalid credentials"} ]_vars

\* a login was refused while a session and a remember pointer existed
C8_Witness ==
    /\ ret.op = "login" /\ ret.status = "returned" /\ ~ret.success
    /\ IsPresent(sessionItem[1]) /\ IsPresent(rememberItem)

\* C9: a createUser that resumes while the directory holds a record with its
\* username (letter case apart) leaves the stored directory as it is and,
\* when called through the facade, throws "User already exists".
C9_DuplicateRefused ==
    [][ \A t \in AllTasks(1) :
          ( /\ t.kind = "createUser"
            /\ tasks'[1] = tasks[1] (-) SetToBag({t})
            /\ Named(t.username) # {} )
          => /\ usersItem' = usersItem
             /\ t.caller = "facade"
                  => /\ ret'.op = "createUser" /\ ret'.status = "threw"
                     /\ ret'.message = "User already exists" ]_vars

\* ensureDefaultAdmin found the directory empty, and its createUser found
\* there after the hash the record a facade createUser stored in between
C9_Witness ==
    /\ ret.op = "ensureDefaultAdmin" /\ ret.message = "User already exists"
    /\ Len(Directory) = 1 /\ Named(defaultUser) = {1}
    /\ Directory[1].role = "viewer"

\* C10: a createUser that succeeds leaves a record with its username, its
\* role and the hash of its password, which findUserByUsername returns for
\* every spelling of the username; no step changes or removes a record, so
\* every lookup that finds a record finds the same one ever after.
C10_RecordsPermanent ==
    [][ /\ (ret'.op = "createUser" /\ ret'.success)
            => \A v \in Usernames :
                 toLowerCase(v) = toLowerCase(ret'.username)
                 => LET found == findUserByUsername(usersItem', v)
                    IN  /\ IsPresent(found)
                        /\ found = ret'.user
                        /\ found[1].username = ret'.username
                        /\ found[1].role = ret'.role
                        /\ found[1].passwordHash = hashPassword(ret'.password)
        /\ usersItem' # usersItem
            => /\ \A i \in 1..Len(Directory) :
                    /\ i <= Len(loadUsers(usersItem'))
                    /\ loadUsers(usersItem')[i] = Directory[i]
               /\ \A v \in Usernames :
                    IsPresent(findUserByUsername(usersItem, v))
                    => findUserByUsername(usersItem', v) = findUserByUsername(usersItem, v) ]_vars

\* a second createUser has succeeded and the directory holds both records
C10_Witness ==
    /\ ret.op = "createUser" /\ ret.success
    /\ Len(Directory) = 2 /\ Directory[2] = ret.user[1]

(* ------------------- bootstrap alone (4.3, claim C11) ------------------ *)
\* The context of a site on which nobody registers: every action of the
\* module except the facade's createUser, so that ensureDefaultAdmin is the
\* only writer of the directory.
NextBootstrap ==
    \/ Tick
    \/ \E t \in AllTasks(1) : CreateUserResume(1, t)
    \/ EnsureDefaultAdmin(1)
    \/ DOMContentLoaded(1)
    \/ \E u \in Usernames, p \in Passwords, b \in BOOLEAN : Login(1, u, p, b)
    \/ \E t \in AllTasks(1) : LoginResume(1, t)
    \/ \E b \in BOOLEAN : Logout(1, b)
    \/ GetSession(1)
    \/ IsAuthenticated(1)

SpecBootstrap == Init /\ [][NextBootstrap]_vars

IsDefaultAdmin(u) ==
    /\ u.username = defaultUser
    /\ u.passwordHash = hashPassword(defaultPass)
    /\ u.role = "admin"

\* C11: when ensureDefaultAdmin is the only writer, the directory never holds
\* more than one user and that user is the default admin; once a call of
\* ensureDefaultAdmin has returned there is exactly one, however the calls
\* overlapped; and a call made (not a suspended one resuming) on a directory
\* with a user in it returns at once, starts nothing and changes nothing.
C11_EnsureTwice ==
    [][ /\ Len(loadUsers(usersItem')) <= 1
        /\ \A i \in 1..Len(loadUsers(usersItem')) : IsDefaultAdmin(loadUsers(usersItem')[i])
        /\ (ret'.op = "ensureDefaultAdmin" /\ ret'.status = "returned")
             => Len(loadUsers(usersItem')) = 1
        /\ (ret'.op = "ensureDefaultAdmin" /\ Len(Directory) > 0 /\ Pending(1)' >= Pending(1))
             => /\ ret'.status = "returned"
                /\ UNCHANGED <<usersItem, rememberItem, sessionItem, tasks, budget>> ]_vars

\* the second of two overlapping ensureDefaultAdmin calls has returned, no
\* call is left, and one user is stored
C11_Witness ==
    /\ ret.op = "ensureDefaultAdmin" /\ ret.status = "returned" /\ ~ret.success
    /\ budget = MaxCalls - 2 /\ Pending(1) = 0
    /\ Len(Directory) = 1 /\ IsDefaultAdmin(Directory[1])

(* ------------------ storage that refuses writes (C12) ------------------ *)
\* The same context on storage whose setItem may throw on the users item.
NextWriteFails ==
    \/ Next
    \/ \E t \in AllTasks(1) : CreateUserResumeFull(1, t)

SpecWriteFails == Init /\ [][NextWriteFails]_vars

\* C12: ensureDefaultAdmin, called directly or by the page's load handler,
\* never ends by throwing. When its createUser fails, because the user exists
\* or because the storage refuses the write, the call returns normally with
\* the users item, the session and the pointer as they were and with its
\* pending call gone, so that whatever could be called before can still be.
C12_EnsureNeverThrows ==
    [][ /\ ret'.op \in {"ensureDefaultAdmin", "DOMContentLoaded"} => ret'.status # "threw"
        /\ (ret'.op \in {"ensureDefaultAdmin", "DOMContentLoaded"} /\ Pending(1)' < Pending(1))
             => ret'.status = "returned"
        /\ (ret'.op = "ensureDefaultAdmin" /\ ret'.message # "")
             => /\ ret'.status = "returned" /\ ~ret'.success
                /\ UNCHANGED <<usersItem, rememberItem, sessionItem, now, budget>>
                /\ Pending(1)' = Pending(1) - 1 ]_vars

\* the storage refused the default admin: the call returned, nothing is stored
C12_Witness ==
    /\ ret.op = "ensureDefaultAdmin" /\ ret.status = "returned"
    /\ ret.message = "QuotaExceededError"
    /\ Len(Directory) = 0 /\ Pending(1) = 0

(* ------------------- unreadable users item (C13) ----------------------- *)
Unreadable(item) == ~item.present \/ ~item.parses

\* C13: while the users item is absent or is text that does not parse,
\* loadUsers gives the empty array and findUserByUsername gives nothing for
\* any name; a login then returns "User not found" without a session; a call
\* of ensureDefaultAdmin or a page load starts creating the default admin;
\* and when that creation resumes on the unreadable item it replaces the item
\* by a directory of exactly the default admin's record.
C13_UnreadableIsEmpty ==
    [][ Unreadable(usersItem) =>
          /\ loadUsers(usersItem) = << >>
          /\ \A u \in Usernames : findUserByUsername(usersItem, u) = Absent
          /\ ret'.op = "login"
               => /\ ret'.status = "returned" /\ ~ret'.success
                  /\ ret'.message = "User not found"
                  /\ UNCHANGED <<usersItem, rememberItem, sessionItem>>
          /\ (ret'.op \in {"ensureDefaultAdmin", "DOMContentLoaded"} /\ Pending(1)' >= Pending(1))
               => ret'.status = "pending" /\ Pending(1)' = Pending(1) + 1
          /\ (ret'.op \in {"ensureDefaultAdmin", "DOMContentLoaded"} /\ Pending(1)' < Pending(1))
               => usersItem' = saveUsers(<<NewUser(defaultUser, hashPassword(defaultPass),
                                                   "admin", now)>>) ]_vars

\* the stored text does not parse and ensureDefaultAdmin, finding no users,
\* has started createUser
C13_Witness ==
    /\ usersItem = Malformed
    /\ ret.op = "ensureDefaultAdmin" /\ ret.status = "pending"
    /\ Pending(1) = 1

(* --------------- two contexts on one directory (5, C14) ---------------- *)
\* Two tabs share localStorage and nothing serialises their scripts, so the
\* other tab can run between createUser's loadUsers() and its saveUsers().
\* Here the part of createUser after the await is two steps: the load with
\* the duplicate check, then the push and the save. A tab that is between the
\* two is inside one synchronous run of its script and does nothing else.
\* The contexts register users and bootstrap; sessions play no part.
Saving(c) == \E t \in BagToSet(tasks[c]) : t.kind = "saving"

SavedOnStored(loaded, item) == loadUsers(item)

\* the array createUser pushes on and saves is the one it loaded
SavedOn(loaded, item) == loaded

\* `const users = loadUsers(); if (users.some(...)) throw ...`
CreateUserLoad(c, t) ==
    /\ t \in BagToSet(tasks[c])
    /\ t.kind = "createUser"
    /\ IF UserExists(loadUsers(usersItem), t.username)
       THEN CreateUserSettle(c, t, TRUE)
       ELSE /\ tasks' = [tasks EXCEPT ![c] =
                           (@ (-) SetToBag({t}))
                           (+) SetToBag({[t EXCEPT !.kind = "saving",
                                                   !.users = loadUsers(usersItem)]})]
            /\ ret' = [NoRet EXCEPT !.op = "createUser", !.ctx = c, !.status = "loaded"]
            /\ UNCHANGED <<usersItem, rememberItem, sessionItem, now, budget>>

\* `users.push(user); saveUsers(users); return user;`
CreateUserSave(c, t) ==
    /\ t \in BagToSet(tasks[c])
    /\ t.kind = "saving"
    /\ Finish(c, t)
    /\ LET user == NewUser(t.username, hashPassword(t.password), t.role, now)
       IN  /\ usersItem' = saveUsers(Append(SavedOn(t.users, usersItem), user))
           /\ ret' = IF t.caller = "facade"
                     THEN [NoRet EXCEPT !.op = "createUser", !.ctx = c,
                              !.username = t.username, !.password = t.password,
                              !.role = t.role, !.success = TRUE, !.user = Some(user)]
                     ELSE [NoRet EXCEPT !.op = "ensureDefaultAdmin", !.ctx = c,
                              !.success = TRUE]
    /\ UNCHANGED <<rememberItem, sessionItem, now>>

ContextStep(c) ==
    \/ \E a \in CreateInputs : CreateUserCall(c, a.username, a.password, a.role)
    \/ EnsureDefaultAdmin(c)
    \/ \E t \in AllTasks(c) : CreateUserLoad(c, t)

NextShared ==
    \/ Tick
    \/ \E c \in Contexts : ~Saving(c) /\ ContextStep(c)
    \/ \E c \in Contexts : \E t \in AllTasks(c) : CreateUserSave(c, t)

SpecShared == Init /\ [][NextShared]_vars

\* C14: with two contexts on one directory, whenever a createUser that has
\* loaded the directory saves, it stores the copy it loaded with its own
\* record appended and returns success, whatever the other context stored in
\* between: what was stored since its load is not in the result. So the
\* interleaving load, load, save, save of two calls for distinct usernames
\* ends with both successful and only the later saver's record stored.
C14_LaterSaveWins ==
    [][ \A c \in Contexts : \A t \in BagToSet(tasks[c]) :
          (t.kind = "saving" /\ tasks' = [tasks EXCEPT ![c] = @ (-) SetToBag({t})])
            => LET user == NewUser(t.username, hashPassword(t.password), t.role, now)
               IN  /\ ret'.status = "returned" /\ ret'.success
                   /\ loadUsers(usersItem') = Append(t.users, user) ]_vars

\* context 1's createUser has returned success and its record is the stored
\* directory, while context 2's createUser for another username has loaded
\* the directory when it was empty and has only its save left to do
C14_Witness ==
    /\ ret.op = "createUser" /\ ret.ctx = 1 /\ ret.success
    /\ Directory = <<ret.user[1]>>
    /\ \E t \in BagToSet(tasks[2]) :
          /\ t.kind = "saving" /\ t.caller = "facade" /\ t.users = << >>
          /\ toLowerCase(t.username) # toLowerCase(ret.username)

\* both calls are over and the record context 1 stored is no longer there
C14_WitnessLost ==
    /\ ret.op = "createUser" /\ ret.ctx = 2 /\ ret.success
    /\ Directory = <<ret.user[1]>>
    /\ budget = MaxCalls - 2 /\ Pending(1) = 0 /\ Pending(2) = 0

(* ------------------------------ ids (C15) ------------------------------ *)
\* C15: the records of the directory have pairwise distinct ids. The id is
\* `u_` followed by Date.now() at the creation, so two creations at one clock
\* reading get the same id.
C15_DistinctIds ==
    \A i, j \in 1..Len(Directory) : i # j => Directory[i].id # Directory[j].id

(* --------------------- stale remember pointer (C16) -------------------- *)
\* getSession or isAuthenticated runs with no volatile record and a pointer
\* that findUserByUsername resolves to nobody
FailedRehydration ==
    /\ ret'.op \in {"getSession", "isAuthenticated"}
    /\ ~IsPresent(sessionItem[1])
    /\ Truthy(rememberItem)
    /\ ~IsPresent(findUserByUsername(usersItem, rememberItem[1]))

\* C16 as stated: when getSession attempts rehydration and the pointer's
\* username matches no record, the pointer is absent once the call returns.
C16_PointerCleared ==
    [][ FailedRehydration => rememberItem' = Absent ]_vars

\* C16: when getSession attempts rehydration and the pointer's username
\* matches no record, the call answers absent, stores no session and leaves
\* the remember pointer exactly as it was.
C16_PointerLeftStale ==
    [][ FailedRehydration
          => /\ rememberItem' = rememberItem
             /\ sessionItem' = sessionItem
             /\ ret'.session = Absent /\ ~ret'.success /\ ~ret'.rehydrated ]_vars

\* isAuthenticated has answered false and the pointer still holds the name
\* it could not resolve
C16_Witness ==
    /\ ret.op = "isAuthenticated" /\ ~ret.success /\ ~ret.rehydrated
    /\ ~IsPresent(sessionItem[1])
    /\ rememberItem = Some(defaultUser)
    /\ ~IsPresent(findUserByUsername(usersItem, defaultUser))

(* ------------------ bootstrap racing registration (C17) ---------------- *)
\* C17: ensureDefaultAdmin, called directly or by the page's load handler,
\* never writes to a directory that holds a record when it resumes from its
\* hash: the users item is then left as it is. The code tests for emptiness
\* before the await only; after it, createUser refuses nothing but a record
\* of the same username.
C17_NoAdminOnceAnyAccount ==
    [][ ( /\ ret'.op \in {"ensureDefaultAdmin", "DOMContentLoaded"}
          /\ Pending(1)' < Pending(1)
          /\ Len(Directory) > 0 )
        => usersItem' = usersItem ]_vars

(* ------------------- session and pointer agree (C18) ------------------- *)
\* C18: in one context, whenever the volatile record and the remember pointer
\* are both present, the pointer is the record's username, letter for letter.
C18_PointerIsSessionUser ==
    (IsPresent(sessionItem[1]) /\ IsPresent(rememberItem))
        => rememberItem[1] = sessionItem[1][1].username

\* a remembered login has succeeded under a name typed in another letter case
\* than the record's: record and pointer both carry the record's spelling
C18_Witness ==
    /\ ret.op = "login" /\ ret.success /\ ret.flag
    /\ IsPresent(sessionItem[1]) /\ IsPresent(rememberItem)
    /\ ret.username # sessionItem[1][1].username

(* ------------------ the pointer names a user (C19) --------------------- *)
\* C19: in one context that starts with empty storage, whenever the remember
\* pointer is present it is the username of a record of the directory, and
\* every getSession or isAuthenticated that finds no volatile record but a
\* pointer rebuilds the session: it stores and answers a record for the user
\* the pointer names.
C19_PointerNamesUser ==
    [][ /\ IsPresent(rememberItem')
          => \E i \in 1..Len(loadUsers(usersItem')) :
                loadUsers(usersItem')[i].username = rememberItem'[1]
        /\ ( /\ ret'.op \in {"getSession", "isAuthenticated"}
             /\ ~IsPresent(sessionItem[1])
             /\ IsPresent(rememberItem) )
          => /\ ret'.rehydrated
             /\ IsPresent(sessionItem'[1])
             /\ sessionItem'[1][1].username = rememberItem[1]
             /\ rememberItem' = rememberItem ]_vars

\* isAuthenticated has answered true by rebuilding the session from the pointer
C19_Witness ==
    /\ ret.op = "isAuthenticated" /\ ret.success /\ ret.rehydrated
    /\ IsPresent(sessionItem[1])
    /\ rememberItem = Some(sessionItem[1][1].username)

(* ---------------- completion order decides (C20) ----------------------- *)
\* C20: a login that is pending with the right password writes its session
\* when its hash resolves, whatever was called since it was invoked: the
\* volatile record becomes the session of the user it found, the pointer that
\* user's name when remember was asked and absent otherwise, and the call
\* reports success. So a logout(true) made while the login was pending is
\* undone by the login's completion.
C20_CompletionOrderDecides ==
    [][ \A t \in BagToSet(tasks[1]) :
          ( /\ t.kind = "login"
            /\ hashPassword(t.password) = t.user[1].passwordHash
            /\ ret'.op = "login"
            /\ tasks' = [tasks EXCEPT ![1] = @ (-) SetToBag({t})] )
          => /\ ret'.success
             /\ sessionItem'[1] = Some(NewSession(t.user[1], now))
             /\ rememberItem' = IF t.remember THEN Some(t.user[1].username) ELSE Absent ]_vars

\* logout(true) has just run and left neither record nor pointer, while a
\* remembered login invoked before it, with the right password, is pending
C20_Witness ==
    /\ ret.op = "logout" /\ ret.flag
    /\ ~IsPresent(sessionItem[1]) /\ ~IsPresent(rememberItem)
    /\ \E t \in BagToSet(tasks[1]) :
          /\ t.kind = "login" /\ t.remember
          /\ hashPassword(t.password) = t.user[1].passwordHash

====
